---- MODULE Spec2Model ----
(***************************************************************************)
(* Lead-capture backend (src/main.py, src/schemas.py).                     *)
(*                                                                         *)
(* Python strings are sequences of one-character strings, the line feed    *)
(* being the token "LF".  Python's None is the value None below.  The      *)
(* persistence adapter (module `database`: create_document, get_documents, *)
(* db) is imported by src/main.py but is not part of the sources; it is    *)
(* modelled from sections 3 and 4.2 of the specification.                  *)
(***************************************************************************)
EXTENDS Integers, Sequences, FiniteSets, TLC

\* ---- bounds of the model -------------------------------------------------
MaxLeads  == 2      \* documents create-lead may insert
MaxLegacy == 1      \* documents without created_at already in the collection
MaxLimit  == 1      \* explicit ?limit= values are 1..MaxLimit

\* ---- program constants ---------------------------------------------------
MinNameLen     == 2
MaxNameLen     == 100
MaxPhoneLen    == 32
MaxGoalsLen    == 1000
MaxTimezoneLen == 64
DefaultLimit   == 50
MaxCollections == 10
MaxErrChars    == 50
DefaultKey     == 0

None == <<"None">>
DefaultPort == <<"5", "8", "7">>
Digits == {"0", "1", "2", "3", "4", "5", "6", "7", "8", "9"}

VARIABLES
    env,      \* the process environment (os.getenv)
    db,       \* the process-wide store handle: "none" or "handle"
    up,       \* whether the store behind the handle can be reached
    tsKind,   \* how creation times are represented: "datetime" or "number"
    store,    \* the "lead" collection, in insertion order
    nextId,   \* the next identifier the store generates
    clock,    \* the server clock
    mail,     \* the delivery attempts made by the last create-lead request
    acked,    \* (id, submitted fields) of every create-lead answered ok
    req,      \* the last HTTP request
    resp      \* the response to it

vars == <<env, db, up, tsKind, store, nextId, clock, mail, acked, req, resp>>

\* ---- strings -------------------------------------------------------------
Pad(n) == [i \in 1..n |-> "x"]

Take(s, n) == IF Len(s) <= n THEN s ELSE SubSeq(s, 1, n)

Min(a, b) == IF a <= b THEN a ELSE b

Truthy(v) == v # None /\ v # <<>>

Getenv(k, default) == IF env[k] = None THEN default ELSE env[k]

HasLinefeed(s) == \E i \in 1..Len(s) : s[i] \in {"LF", "CR"}

IsNumeric(s) == Len(s) > 0 /\ \A i \in 1..Len(s) : s[i] \in Digits

DigitSeq == <<"0", "1", "2", "3", "4", "5", "6", "7", "8", "9">>

DigitValue(c) == (CHOOSE i \in 1..10 : DigitSeq[i] = c) - 1

RECURSIVE ParseInt(_)
ParseInt(s) ==
    IF Len(s) = 0 THEN 0
    ELSE 10 * ParseInt(SubSeq(s, 1, Len(s) - 1)) + DigitValue(s[Len(s)])

RECURSIVE Decimal(_)
Decimal(n) ==
    IF n < 10 THEN <<DigitSeq[n + 1]>>
    ELSE Append(Decimal(n \div 10), DigitSeq[(n % 10) + 1])

\* str(ObjectId): the identifier rendered as text.
Str(oid) == <<"#">> \o Decimal(oid)

\* ---- schemas.py: Lead ----------------------------------------------------
LeadFields == {"name", "email", "phone", "experience_level", "goals",
               "platforms", "timezone", "preferred_times", "consent"}

IsEmail(e) ==
    /\ Cardinality({i \in 1..Len(e) : e[i] = "@"}) = 1
    /\ LET at == CHOOSE i \in 1..Len(e) : e[i] = "@"
       IN  /\ at > 1
           /\ \E j \in (at + 2)..(Len(e) - 1) : e[j] = "."
           /\ e[at + 1] # "."
           /\ \A i \in 1..Len(e) : e[i] \notin {"LF", "CR", " "}

Given(raw, k) == k \in DOMAIN raw /\ raw[k] # None

\* Faulty variant of FieldErrors: the minimum length of name is not enforced.
FieldErrorsNoMinLength(raw) ==
    {k \in {"name", "email"} : k \notin DOMAIN raw \/ raw[k] = None}
    \cup {k \in {"name"} : Given(raw, k) /\ Len(raw[k]) > MaxNameLen}
    \cup {k \in {"email"} : Given(raw, k) /\ ~IsEmail(raw[k])}
    \cup {k \in {"phone"} : Given(raw, k) /\ Len(raw[k]) > MaxPhoneLen}
    \cup {k \in {"goals"} : Given(raw, k) /\ Len(raw[k]) > MaxGoalsLen}
    \cup {k \in {"timezone"} : Given(raw, k) /\ Len(raw[k]) > MaxTimezoneLen}

FieldErrors(raw) ==
    {k \in {"name", "email"} : k \notin DOMAIN raw \/ raw[k] = None}
    \cup {k \in {"name"} : Given(raw, k)
            /\ (Len(raw[k]) < MinNameLen \/ Len(raw[k]) > MaxNameLen)}
    \cup {k \in {"email"} : Given(raw, k) /\ ~IsEmail(raw[k])}
    \cup {k \in {"phone"} : Given(raw, k) /\ Len(raw[k]) > MaxPhoneLen}
    \cup {k \in {"goals"} : Given(raw, k) /\ Len(raw[k]) > MaxGoalsLen}
    \cup {k \in {"timezone"} : Given(raw, k) /\ Len(raw[k]) > MaxTimezoneLen}

Valid(raw) == FieldErrors(raw) = {}

FieldDefault(k) ==
    IF k \in {"platforms", "preferred_times"} THEN <<>>
    ELSE IF k = "consent" THEN TRUE
    ELSE None

\* Faulty variant of Lead: the optional fields of the request are dropped.
LeadRequiredOnly(raw) ==
    [k \in LeadFields |-> IF k \in {"name", "email"} THEN raw[k] ELSE FieldDefault(k)]

Lead(raw) == [k \in LeadFields |-> IF k \in DOMAIN raw THEN raw[k] ELSE FieldDefault(k)]

\* ---- request inputs ------------------------------------------------------
Ada      == <<"A", "d", "a">>
AdaMail  == <<"a", "@", "x", ".", "c">>
BobMail  == <<"b", "@", "x", ".", "c">>

ValidInputs ==
    { [name |-> Ada, email |-> AdaMail, consent |-> TRUE],
      [name |-> <<"B", "LF", "o">>, email |-> BobMail, phone |-> <<"0", "1">>,
       platforms |-> <<"meta">>, consent |-> FALSE] }

InvalidInputs ==
    { [email |-> AdaMail],
      [name |-> Ada],
      [name |-> <<"A">>, email |-> AdaMail],
      [name |-> Pad(MaxNameLen + 1), email |-> AdaMail],
      [name |-> Ada, email |-> <<"a", "x", ".", "c">>],
      [name |-> Ada, email |-> AdaMail, phone |-> Pad(MaxPhoneLen + 1)],
      [name |-> Ada, email |-> AdaMail, timezone |-> Pad(MaxTimezoneLen + 1)],
      [name |-> Ada, email |-> AdaMail, goals |-> Pad(MaxGoalsLen + 1)] }

LeadInputs == ValidInputs \cup InvalidInputs

Secret == <<"s", "3">>
HeaderInputs == {None, Secret, <<"w">>}
LimitInputs == {DefaultLimit} \cup 1..MaxLimit
MailOutcomes == {"sent", "unreachable"}

\* ---- database: the persistence adapter -----------------------------------
\* Section 4.2: an operation on a missing handle or an unreachable store
\* fails with a StorageError.
StoreUsable == db = "handle" /\ up

StorageError ==
    IF db = "none" THEN <<"n", "o", " ", "d", "b">> ELSE <<"d", "o", "w", "n">>

\* Section 3: the stored document is the lead plus a generated identifier
\* and the creation time assigned at the insert.
create_document(lead, oid, now) ==
    [k \in LeadFields \cup {"_id", "created_at"} |->
        IF k = "_id" THEN oid ELSE IF k = "created_at" THEN now ELSE lead[k]]

\* Section 4.2: up to `limit` documents, in an order the caller cannot
\* rely on.
Arrangements(S, n) ==
    {s \in [1..n -> S] : \A i, j \in 1..n : i # j => s[i] # s[j]}

get_documents(limit) ==
    Arrangements({store[i] : i \in 1..Len(store)}, Min(limit, Len(store)))

CollectionNames == IF Len(store) > 0 THEN <<"lead">> ELSE <<>>

\* ---- main.py: the notification sender ------------------------------------
\* Faulty variant of _smtp_configured: only the host is looked at.
SmtpHostOnly == Truthy(env.SMTP_HOST)

_smtp_configured ==
    /\ Truthy(env.SMTP_HOST)
    /\ Truthy(env.SMTP_PORT)
    /\ Truthy(env.EMAIL_FROM)
    /\ Truthy(env.EMAIL_TO)

NoSend == [raised |-> FALSE, attempts |-> <<>>]

\* The result of one call of _send_email: whether it raised, and the delivery
\* attempts (SMTP connections) it made.  `outcome` is what the mail server
\* does with the attempt; whatever it is, the try block swallows it.
_send_email(subject, body, to_email, outcome) ==
    IF ~Truthy(env.SMTP_HOST) THEN NoSend
    ELSE LET port   == Getenv("SMTP_PORT", DefaultPort)
             sender == env.EMAIL_FROM
         IN  IF ~IsNumeric(port) THEN [raised |-> TRUE, attempts |-> <<>>]
             ELSE IF HasLinefeed(subject) \/ HasLinefeed(sender) \/ HasLinefeed(to_email)
                  THEN [raised |-> TRUE, attempts |-> <<>>]
             ELSE [raised |-> FALSE,
                   attempts |-> <<[to |-> to_email, port |-> ParseInt(port),
                                   body |-> body, outcome |-> outcome]>>]

SubjectAdmin(lead) == <<"N", "e", "w", " ", "L", "e", "a", "d", ":", " ">> \o lead.name

SubjectUser == <<"T", "h", "a", "n", "k", "s">>

BodyAdmin(lead, lead_id) == lead.name \o lead.email \o <<"I", "D", ":", " ">> \o lead_id

BodyUser(lead) == <<"H", "i", " ">> \o lead.name

\* The notification step of create_lead (lines 113-140).
Notify(lead, lead_id, o1, o2) ==
    IF ~_smtp_configured THEN NoSend
    ELSE LET first == _send_email(SubjectAdmin(lead), BodyAdmin(lead, lead_id),
                                env.EMAIL_TO, o1)
         IN  IF first.raised THEN first
             ELSE LET second == _send_email(SubjectUser, BodyUser(lead), lead.email, o2)
                  IN  [raised |-> second.raised,
                       attempts |-> first.attempts \o second.attempts]

\* ---- main.py: POST /api/leads --------------------------------------------
CreateResponse(status, id, detail, calls) ==
    [op |-> "create", status |-> status, id |-> id, detail |-> detail, calls |-> calls]

ValueError == <<"V", "a", "l", "u", "e">>

\* Faulty variant of Create: the mails are sent before the insert is made.
CreateNotifyFirst(raw, o1, o2) ==
    IF ~Valid(raw)
    THEN [response |-> CreateResponse(422, None, FieldErrors(raw), <<>>),
          inserted |-> <<>>, attempts |-> <<>>]
    ELSE LET lead == Lead(raw)
             lead_id == Str(nextId)
             sent == Notify(lead, lead_id, o1, o2)
         IN  IF ~StoreUsable
             THEN [response |-> CreateResponse(500, None, StorageError,
                                               <<"create_document">>),
                   inserted |-> <<>>, attempts |-> sent.attempts]
             ELSE [response |-> IF sent.raised
                                THEN CreateResponse(500, None, ValueError,
                                                    <<"create_document">>)
                                ELSE CreateResponse(200, lead_id, <<>>,
                                                    <<"create_document">>),
                   inserted |-> <<create_document(lead, nextId, clock)>>,
                   attempts |-> sent.attempts]

\* What one request does: its response, the document it inserted (if any)
\* and the delivery attempts it made.
Create(raw, o1, o2) ==
    IF ~Valid(raw)
    THEN [response |-> CreateResponse(422, None, FieldErrors(raw), <<>>),
          inserted |-> <<>>, attempts |-> <<>>]
    ELSE IF ~StoreUsable
    THEN [response |-> CreateResponse(500, None, StorageError, <<"create_document">>),
          inserted |-> <<>>, attempts |-> <<>>]
    ELSE LET lead == Lead(raw)
             lead_id == Str(nextId)
             sent == Notify(lead, lead_id, o1, o2)
         IN  [response |-> IF sent.raised
                           THEN CreateResponse(500, None, ValueError, <<"create_document">>)
                           ELSE CreateResponse(200, lead_id, <<>>, <<"create_document">>),
              inserted |-> <<create_document(lead, nextId, clock)>>,
              attempts |-> sent.attempts]

Created == Cardinality({i \in 1..Len(store) : "created_at" \in DOMAIN store[i]})

create_lead(raw, o1, o2) ==
    /\ UNCHANGED <<env, db, up, tsKind, clock>>
    /\ req' = [op |-> "create", raw |-> raw]
    /\ \E r \in {Create(raw, o1, o2)} :
        /\ r.inserted # <<>> => Created < MaxLeads
        /\ store' = store \o r.inserted
        /\ nextId' = nextId + Len(r.inserted)
        /\ mail' = r.attempts
        /\ resp' = r.response
        /\ acked' = IF r.response.status = 200
                    THEN acked \cup {[id |-> r.response.id, raw |-> raw]}
                    ELSE acked

\* ---- main.py: GET /api/leads ---------------------------------------------
Publish(d) ==
    IF "_id" \in DOMAIN d
    THEN [k \in (DOMAIN d \ {"_id"}) \cup {"id"} |-> IF k = "id" THEN Str(d["_id"]) ELSE d[k]]
    ELSE d

HasCreatedAt(d) == "created_at" \in DOMAIN d

SortKey(d) == IF HasCreatedAt(d) THEN d["created_at"] ELSE DefaultKey

\* docs.sort(key=..., reverse=True) is stable: equal keys keep their order.
RECURSIVE InsertDesc(_, _)
InsertDesc(sorted, d) ==
    IF Len(sorted) = 0 THEN <<d>>
    ELSE IF SortKey(sorted[Len(sorted)]) >= SortKey(d) THEN Append(sorted, d)
    ELSE Append(InsertDesc(SubSeq(sorted, 1, Len(sorted) - 1), d), sorted[Len(sorted)])

\* Faulty variant of SortDesc: the list is left as the adapter returned it.
Unsorted(docs) == docs

RECURSIVE SortDesc(_)
SortDesc(docs) ==
    IF Len(docs) = 0 THEN <<>>
    ELSE InsertDesc(SortDesc(SubSeq(docs, 1, Len(docs) - 1)), docs[Len(docs)])

\* A datetime and the default key 0 do not compare: the sort raises.
SortRaises(docs) ==
    /\ tsKind = "datetime"
    /\ \E i \in 1..Len(docs) : HasCreatedAt(docs[i])
    /\ \E i \in 1..Len(docs) : ~HasCreatedAt(docs[i])

ListOrders(docs) ==
    {p \in [1..Len(docs) -> {docs[i] : i \in 1..Len(docs)}] :
        \A i, j \in 1..Len(docs) : i # j => p[i] # p[j]}

\* The list after lines 163-166: sorted, or, when the sort raised and the
\* exception was swallowed, in whatever order the aborted sort left it.
SortOutcomes(docs) ==
    IF SortRaises(docs) THEN ListOrders(docs) ELSE {SortDesc(docs)}

ListResponse(status, detail, results, retrieved, calls) ==
    [op |-> "list", status |-> status, detail |-> detail, results |-> results,
     retrieved |-> retrieved, calls |-> calls]

\* Faulty variant of Unauthorized: a request without the header passes.
UnauthorizedIfPresent(x_admin_key) ==
    Truthy(env.ADMIN_KEY) /\ x_admin_key # None /\ x_admin_key # env.ADMIN_KEY

Unauthorized(x_admin_key) ==
    Truthy(env.ADMIN_KEY) /\ x_admin_key # env.ADMIN_KEY

list_leads(limit, x_admin_key) ==
    /\ UNCHANGED <<env, db, up, tsKind, store, nextId, clock, mail, acked>>
    /\ req' = [op |-> "list", limit |-> limit, key |-> x_admin_key]
    /\ IF Unauthorized(x_admin_key)
       THEN resp' = ListResponse(401, <<"U", "n", "a", "u", "t", "h">>, <<>>, <<>>, <<>>)
       ELSE IF ~StoreUsable
       THEN resp' = ListResponse(500, StorageError, <<>>, <<>>, <<"get_documents">>)
       ELSE \E docs \in get_documents(limit) :
            \E results \in SortOutcomes([i \in 1..Len(docs) |-> Publish(docs[i])]) :
                resp' = ListResponse(200, <<>>, results, docs,
                                     <<"get_documents">>)

\* ---- main.py: GET /test --------------------------------------------------
\* Faulty variant of DiagnosticResponse: the error of the store escapes.
DiagnosticUncaught ==
    IF db # "none"
    THEN IF up
         THEN [op |-> "test", status |-> 200, database |-> "Connected & Working",
               connection_status |-> "Connected",
               collections |-> Take(CollectionNames, MaxCollections), error |-> <<>>]
         ELSE [op |-> "test", status |-> 500, database |-> "Not Available",
               connection_status |-> "Not Connected",
               collections |-> <<>>, error |-> Take(StorageError, MaxErrChars)]
    ELSE [op |-> "test", status |-> 200, database |-> "Available but not initialized",
          connection_status |-> "Not Connected", collections |-> <<>>, error |-> <<>>]

DiagnosticResponse ==
    IF db # "none"
    THEN IF up
         THEN [op |-> "test", status |-> 200, database |-> "Connected & Working",
               connection_status |-> "Connected",
               collections |-> Take(CollectionNames, MaxCollections), error |-> <<>>]
         ELSE [op |-> "test", status |-> 200, database |-> "Connected but Error",
               connection_status |-> "Connected",
               collections |-> <<>>, error |-> Take(StorageError, MaxErrChars)]
    ELSE [op |-> "test", status |-> 200, database |-> "Available but not initialized",
          connection_status |-> "Not Connected", collections |-> <<>>, error |-> <<>>]

test_database ==
    /\ req' = [op |-> "test"]
    /\ resp' = DiagnosticResponse
    /\ UNCHANGED <<env, db, up, tsKind, store, nextId, clock, mail, acked>>

\* ---- the environment ------------------------------------------------------
\* Time passes.  Only inserts read the clock, so one tick between two inserts
\* stands for any amount of time; without a tick two inserts share an instant.
Tick ==
    /\ Created < MaxLeads
    /\ clock <= Created
    /\ clock' = clock + 1
    /\ UNCHANGED <<env, db, up, tsKind, store, nextId, mail, acked, req, resp>>

StoreDown ==
    /\ db = "handle" /\ up
    /\ up' = FALSE
    /\ UNCHANGED <<env, db, tsKind, store, nextId, clock, mail, acked, req, resp>>

StoreUp ==
    /\ db = "handle" /\ ~up
    /\ up' = TRUE
    /\ UNCHANGED <<env, db, tsKind, store, nextId, clock, mail, acked, req, resp>>

\* What the mail server may do with the two attempts of one request.
ServerOutcomes(raw) ==
    IF Valid(raw) /\ StoreUsable /\ _smtp_configured
    THEN MailOutcomes \X MailOutcomes
    ELSE {<<"sent", "sent">>}

\* ---- specifications ------------------------------------------------------
MailFrom == <<"f", "@", "x", ".", "c">>
MailTo   == <<"t", "@", "x", ".", "c">>

\* Mail settings: complete, complete with a port that is not a number, each
\* one of the four missing (unset, or set to the empty string), none set.
FullMail ==
    [SMTP_HOST |-> <<"h">>, SMTP_PORT |-> <<"2", "5">>,
     EMAIL_FROM |-> MailFrom, EMAIL_TO |-> MailTo]

NoMail == [k \in DOMAIN FullMail |-> None]

MailSettings ==
    {FullMail, [FullMail EXCEPT !.SMTP_PORT = <<"a">>]}
    \cup {[FullMail EXCEPT ![k] = None] : k \in DOMAIN FullMail}
    \cup {[FullMail EXCEPT !.EMAIL_TO = <<>>]}
    \cup {NoMail}

WithAdminKey(m, a) ==
    [k \in {"ADMIN_KEY"} \cup DOMAIN m |-> IF k = "ADMIN_KEY" THEN a ELSE m[k]]

\* No handler reads both the admin key and the mail settings: each admin key
\* is tried without mail settings, each mail setting without admin key.
Environments ==
    {WithAdminKey(NoMail, a) : a \in {None, <<>>, Secret}}
    \cup {WithAdminKey(m, None) : m \in MailSettings}

LegacyDocument(oid) == [_id |-> oid, name |-> Ada, email |-> AdaMail]

InitCommon ==
    /\ env \in Environments
    /\ db \in {"none", "handle"}
    /\ up = (db = "handle")
    /\ clock = 1
    /\ mail = <<>>
    /\ acked = {}
    /\ req = [op |-> "none"]
    /\ resp = [op |-> "none", status |-> 0]

\* Every document of the collection was inserted by create-lead.  With a
\* creation time on every document the representation of time has no effect.
Init ==
    /\ InitCommon
    /\ tsKind = "datetime"
    /\ store = <<>>
    /\ nextId = 1

\* The collection already holds documents that carry no creation time.
InitLegacy ==
    /\ InitCommon
    /\ tsKind \in {"datetime", "number"}
    /\ \E n \in 1..MaxLegacy :
        /\ store = [i \in 1..n |-> LegacyDocument(i)]
        /\ nextId = n + 1

Next ==
    \/ \E raw \in LeadInputs : \E o \in ServerOutcomes(raw) : create_lead(raw, o[1], o[2])
    \/ \E limit \in LimitInputs : \E key \in HeaderInputs : list_leads(limit, key)
    \/ test_database
    \/ Tick
    \/ StoreDown
    \/ StoreUp

Spec == Init /\ [][Next]_vars

SpecLegacy == InitLegacy /\ [][Next]_vars

\* ---- properties ----------------------------------------------------------
\* The clock and the reachability of the store change only between requests:
\* a step that leaves both alone is the handling of the request req'.
HandlerStep(op) == clock' = clock /\ up' = up /\ req'.op = op

Authorised(key) == Truthy(env.ADMIN_KEY) => key = env.ADMIN_KEY

StoreWorks == db = "handle" /\ up

\* The list contains a record with the acknowledged id and submitted fields.
Listed(a, results) ==
    \E i \in 1..Len(results) :
        /\ "id" \in DOMAIN results[i]
        /\ results[i]["id"] = a.id
        /\ \A k \in DOMAIN a.raw : k \in DOMAIN results[i] /\ results[i][k] = a.raw[k]

MissingOrShort(raw) ==
    \/ "name" \notin DOMAIN raw
    \/ "email" \notin DOMAIN raw
    \/ Len(raw.name) < MinNameLen

\* C2: a create-lead request whose name or email is missing, or whose name
\* has fewer than 2 characters, fails validation before anything else
\* happens: no adapter call, no document stored, no delivery attempt.
C2_ValidationFirst ==
    [][HandlerStep("create") /\ MissingOrShort(req'.raw) =>
          /\ resp'.status = 422
          /\ resp'.calls = <<>>
          /\ store' = store
          /\ mail' = <<>>]_vars

C2_Witness ==
    /\ req.op = "create" /\ "name" \in DOMAIN req.raw /\ Len(req.raw.name) = 1
    /\ resp.status = 422 /\ resp.detail = {"name"}
    /\ StoreWorks /\ store = <<>> /\ mail = <<>>

\* C3: once the lead is persisted, create-lead answers ok with the new
\* identifier whatever happens in the notification step.
C3_NotificationContained ==
    [][HandlerStep("create") /\ Len(store') > Len(store) =>
          /\ resp'.status = 200
          /\ resp'.id = Str(store'[Len(store')]["_id"])]_vars

AllFourSet ==
    \A k \in {"SMTP_HOST", "SMTP_PORT", "EMAIL_FROM", "EMAIL_TO"} :
        env[k] # None /\ env[k] # <<>>

\* C4: a successful create-lead request made exactly two delivery attempts,
\* the first to the admin address and the second to the applicant, if all
\* four of host, port, from and to are configured, and none otherwise; and
\* when one of the four is absent only the store can make a valid request
\* fail.
C4_TwoAttemptsIffConfigured ==
    req.op = "create" =>
        /\ resp.status = 200 =>
            /\ Len(mail) = 2 <=> AllFourSet
            /\ Len(mail) = 0 <=> ~AllFourSet
            /\ AllFourSet => mail[1].to = env.EMAIL_TO /\ mail[2].to = req.raw.email
        /\ ~AllFourSet /\ req.raw \in ValidInputs /\ resp.status # 200 =>
            /\ resp.calls = <<"create_document">>
            /\ resp.detail = StorageError
            /\ mail = <<>>

C4_Witness ==
    /\ req.op = "create" /\ resp.status = 200
    /\ AllFourSet
    /\ Len(mail) = 2
    /\ mail[1].outcome = "unreachable" /\ mail[2].outcome = "sent"

SecretConfigured == env.ADMIN_KEY # None /\ env.ADMIN_KEY # <<>>

\* C5: with an admin secret configured and the X-Admin-Key header missing
\* or different, list-leads answers 401 with no records and without reading
\* the store; with no admin secret configured, whatever the header, it reads
\* the store and answers 200 with the records whenever the store is usable.
C5_AdminGate ==
    [][HandlerStep("list") =>
          /\ SecretConfigured /\ req'.key # env.ADMIN_KEY =>
                /\ resp'.status = 401
                /\ resp'.results = <<>>
                /\ resp'.calls = <<>>
          /\ ~SecretConfigured =>
                /\ resp'.calls = <<"get_documents">>
                /\ IF StoreWorks
                   THEN /\ resp'.status = 200
                        /\ Len(resp'.results) = Min(req'.limit, Len(store))
                   ELSE resp'.status = 500]_vars

C5_Witness ==
    /\ req.op = "list" /\ resp.status = 401
    /\ SecretConfigured /\ req.key = None
    /\ Len(store) > 0 /\ StoreWorks

IsPermutation(a, b) ==
    /\ Len(a) = Len(b)
    /\ \E f \in [1..Len(a) -> 1..Len(a)] :
        /\ \A i, j \in 1..Len(a) : i # j => f[i] # f[j]
        /\ \A i \in 1..Len(a) : a[i] = b[f[i]]

LaterFirst(results) ==
    \A i, j \in 1..Len(results) :
        /\ "created_at" \in DOMAIN results[i]
        /\ "created_at" \in DOMAIN results[j]
        /\ results[i]["created_at"] > results[j]["created_at"]
        => i < j

\* C6: in the result list of list-leads a record created later stands before
\* a record created earlier, whatever order the adapter returned them in.
C6_NewestFirst ==
    req.op = "list" /\ resp.status = 200 =>
        /\ LaterFirst(resp.results)
        /\ \A i \in 1..Len(resp.results) : "created_at" \in DOMAIN resp.results[i]
        /\ Len(resp.results) = Len(resp.retrieved)

C6_Witness ==
    /\ req.op = "list" /\ resp.status = 200
    /\ Len(resp.retrieved) = 2
    /\ resp.retrieved[1]["created_at"] < resp.retrieved[2]["created_at"]
    /\ resp.results[1]["created_at"] > resp.results[2]["created_at"]
    /\ resp.results[1]["id"] = Str(resp.retrieved[2]["_id"])

\* C7: GET /test answers in every store state (handle missing, store
\* unreachable, store working) with the diagnostic object, reports the
\* working status only when the store can be used and a not-initialised or
\* error status otherwise, and leaves the stored leads alone.
C7_DiagnosticsNeverRaise ==
    [][HandlerStep("test") =>
          /\ resp'.op = "test" /\ resp'.status = 200
          /\ store' = store /\ nextId' = nextId
          /\ resp'.database = "Connected & Working" <=> StoreWorks
          /\ db = "none" =>
                /\ resp'.database = "Available but not initialized"
                /\ resp'.connection_status = "Not Connected"
                /\ resp'.collections = <<>>
          /\ db = "handle" /\ ~up =>
                /\ resp'.database = "Connected but Error"
                /\ resp'.error # <<>>
                /\ resp'.collections = <<>>]_vars

C7_Witness ==
    /\ req.op = "test" /\ resp.status = 200
    /\ db = "handle" /\ ~up /\ Len(store) > 0
    /\ resp.database = "Connected but Error"

\* C8: when the insert fails, create-lead answers 500 with the error message
\* as detail, adds no document and attempts no delivery; a delivery is only
\* attempted by a request that has stored its lead, and the admin mail
\* carries the identifier of that stored document.
C8_PersistBeforeNotify ==
    [][HandlerStep("create") =>
          /\ req'.raw \in ValidInputs /\ ~StoreWorks =>
                /\ resp'.status = 500
                /\ resp'.detail = StorageError
                /\ store' = store
                /\ mail' = <<>>
          /\ mail' # <<>> =>
                /\ Len(store') = Len(store) + 1
                /\ store'[Len(store')]["name"] = req'.raw.name
                /\ mail'[1].body =
                     BodyAdmin(store'[Len(store')], Str(store'[Len(store')]["_id"]))]_vars

C8_Witness ==
    /\ req.op = "create" /\ req.raw \in ValidInputs
    /\ AllFourSet /\ ~StoreWorks
    /\ resp.status = 500 /\ resp.detail = StorageError
    /\ mail = <<>>

\* C9: list-leads returns at most `limit` records and answers 200 also when
\* some retrieved documents have no creation time: every retrieved document
\* is in the result exactly once with its internal identifier replaced by a
\* public string id, and the records that have a creation time are in
\* descending order of it.
C9_MissingCreationTime ==
    [][HandlerStep("list") /\ Authorised(req'.key) /\ StoreWorks =>
          /\ resp'.status = 200
          /\ Len(resp'.results) <= req'.limit
          /\ IsPermutation(resp'.results,
                           [i \in 1..Len(resp'.retrieved) |->
                               [k \in (DOMAIN resp'.retrieved[i] \ {"_id"}) \cup {"id"} |->
                                   IF k = "id" THEN Str(resp'.retrieved[i]["_id"])
                                   ELSE resp'.retrieved[i][k]]])
          /\ LaterFirst(resp'.results)]_vars

\* C10: the collection is append-only: stored documents never change or
\* disappear, a create-lead request that passes validation makes exactly one
\* insert call and adds at most one document with a new identifier, a
\* create-lead request answered with an error has added nothing, and
\* list-leads and the diagnostic endpoint leave the collection as it is.
C10_AppendOnly ==
    [][/\ Len(store') >= Len(store)
       /\ \A i \in 1..Len(store) : store'[i] = store[i]
       /\ HandlerStep("create") =>
            /\ Len(store') <= Len(store) + 1
            /\ Len(store') > Len(store) =>
                 \A i \in 1..Len(store) : store'[Len(store')]["_id"] # store[i]["_id"]
            /\ req'.raw \in ValidInputs => resp'.calls = <<"create_document">>
            /\ resp'.status # 200 => store' = store
       /\ HandlerStep("list") \/ HandlerStep("test") => store' = store]_vars
====
